---- MODULE Spec2Model ----
(***************************************************************************)
(* github-org-contributions.py: the paginated walkers (repository lister,  *)
(* commit history walker, review history walker), the per-author           *)
(* aggregation loop of main and the reporters, as a state machine.         *)
(*                                                                         *)
(* JSON values: a nullable object is the empty tuple (None) or a one       *)
(* element tuple holding its only queried field (<<login>>, <<name>>), a   *)
(* nullable timestamp string is None or <<t>> with t the UTC instant it    *)
(* spells.  A dict is the sequence of its items in insertion order.        *)
(***************************************************************************)
EXTENDS Integers, Sequences, FiniteSets, TLC

VARIABLES
    server,               \* what the GraphQL endpoint holds: listing, prs, history
    utcoffset,            \* UTC offset of the local time zone of the process
    pc,                   \* position of the program
    exception,            \* "" or the exception that ended the run
    args,                 \* parsed command line: show_totals, csv
    one_year_ago_timestamp,
    org_repos,            \* main: the dict returned by the lister
    repo_i,               \* main: position of the for loop over org_repos
    authors,              \* main: the per-repository table
    reviews,              \* main: list returned by get_reviews
    commits,              \* main: list returned by get_commits
    ev_i,                 \* main: position of the current aggregation loop
    output,               \* everything printed so far
    repos_args,           \* get_org_repos_from_name: history_args
    repos,                \* get_org_repos_from_name: repos
    history_args,         \* get_commits: history_args
    commit_list,          \* get_commits: commits
    pr_history_args,      \* get_reviews
    review_history_args,  \* get_reviews
    reviewers,            \* get_reviews
    emitted,              \* history: <<pr number, review id>> of each element of reviewers
    scanned,              \* history: the <<pr number, review id>> iterated by get_reviews
    reads,                \* history: <<request, pr number, review argument>> of each
                          \* iteration of "for pr in prs"
    requests,             \* history: the cursors of every request of the current walker
    pass,                 \* aggregation harness: 1 = given order, 2 = permuted order
    authors_prev          \* aggregation harness: the table of pass 1

envVars == <<server, utcoffset, args, one_year_ago_timestamp>>
mainVars == <<org_repos, repo_i, authors, reviews, commits, ev_i, output>>
listerVars == <<repos_args, repos>>
commitVars == <<history_args, commit_list>>
reviewVars == <<pr_history_args, review_history_args, reviewers, emitted, scanned,
                reads>>
harnessVars == <<pass, authors_prev>>
vars == <<envVars, pc, exception, mainVars, listerVars, commitVars, reviewVars,
          requests, harnessVars>>

----------------------------------------------------------------------------
(* Bounds of the model.  The queries ask for pages of 100; the model serves *)
(* pages of the sizes below.                                                *)

PrPageSize == 2
ReviewPageSize == 1
MaxPRs == 3
MaxReviewId == 3
MaxOneReviewId == 3
MaxSelfPRs == 2
MaxRequests == 10
UtcOffsets == {0, 1}

None == <<>>
EmptyArgs == 0

Min(a, b) == IF a < b THEN a ELSE b

\* The elements of the finite set of integers S in ascending order.
RECURSIVE Ascending(_)
Ascending(S) ==
    IF S = {} THEN <<>>
    ELSE LET m == CHOOSE x \in S : \A y \in S : x <= y
         IN <<m>> \o Ascending(S \ {m})

----------------------------------------------------------------------------
(* The endpoint.  A cursor of the pull request connection is the position   *)
(* of the last pull request served; a cursor of a review connection is the  *)
(* id of the last review served, and "after" serves the reviews of the      *)
(* connection whose id is greater.  Review ids ascend within a pull request.*)

\* pullRequests(first:100, after) of a repository
PullRequestsPage(prs, after) ==
    LET rest == SubSeq(prs, after + 1, Len(prs))
        nodes == SubSeq(rest, 1, Min(PrPageSize, Len(rest)))
    IN [nodes |-> nodes,
        pageInfo |-> [hasNextPage |-> Len(rest) > PrPageSize,
                      endCursor |-> after + Len(nodes)]]

\* reviews(first:100, after) of one pull request
ReviewsConnection(pr, after) ==
    LET rest == SelectSeq(pr.reviews, LAMBDA r : r.id > after)
        nodes == SubSeq(rest, 1, Min(ReviewPageSize, Len(rest)))
    IN [nodes |-> nodes,
        pageInfo |-> [hasNextPage |-> Len(rest) > ReviewPageSize,
                      endCursor |-> IF nodes = <<>> THEN EmptyArgs
                                    ELSE nodes[Len(nodes)].id]]

\* The response to the query of get_reviews: the one review argument of the
\* query text is applied to the reviews of every pull request of the page.
ReviewsQuery(prs, pr_args, review_args) ==
    LET page == PullRequestsPage(prs, pr_args)
    IN [nodes |-> [i \in 1..Len(page.nodes) |->
                      [number |-> page.nodes[i].number,
                       author |-> page.nodes[i].author,
                       reviews |-> ReviewsConnection(page.nodes[i], review_args)]],
        pageInfo |-> page.pageInfo]

----------------------------------------------------------------------------
(* get_reviews                                                              *)

\* datetime.strptime(s, ...).timestamp(): the naive datetime parsed from the
\* UTC string is read as local time.
Timestamp(s, offset) == s[1] - offset

PrAuthor(pr) == IF pr.author = None THEN "" ELSE pr.author[1]

\* What the body of "for review in reviews['nodes']" does with one review:
\* "skip" (continue), "emit" (append) or "raise" (TypeError on a None).
ReviewOutcomeCountsSelfReview(pr_author, review) ==
    IF review.author = None THEN "skip"
    ELSE IF review.submittedAt = None THEN "skip"
    ELSE "emit"

ReviewOutcomeParsesUnsubmitted(pr_author, review) ==
    IF review.author = None THEN "skip"
    ELSE IF pr_author = review.author[1] THEN "skip"
    ELSE IF review.submittedAt = None THEN "raise"
    ELSE "emit"

ReviewOutcome(pr_author, review) ==
    IF review.author = None THEN "skip"
    ELSE IF pr_author = review.author[1] THEN "skip"
    ELSE IF review.submittedAt = None THEN "skip"
    ELSE "emit"

ReviewEvent(review, offset) ==
    [author |-> review.author[1],
     reviewDate |-> Timestamp(review.submittedAt, offset)]

\* for review in reviews['nodes'], from node i on; acc is the walker's state.
RECURSIVE ScanReviews(_, _, _, _, _)
ScanReviews(pr, nodes, i, offset, acc) ==
    IF i > Len(nodes) \/ acc.raised THEN acc
    ELSE LET review == nodes[i]
             outcome == ReviewOutcome(PrAuthor(pr), review)
             seen == [acc EXCEPT !.scanned = @ \cup {<<pr.number, review.id>>}]
         IN ScanReviews(pr, nodes, i + 1, offset,
                CASE outcome = "skip" -> seen
                  [] outcome = "emit" ->
                        [seen EXCEPT !.reviewers = Append(@, ReviewEvent(review, offset)),
                                     !.emitted = Append(@, <<pr.number, review.id>>)]
                  [] OTHER -> [seen EXCEPT !.raised = TRUE])

\* The argument that continues the reviews of pr (line 186), as the mutant
\* that keeps it empty and as the code has it.
NextReviewArgsEmpty(pr) == EmptyArgs

NextReviewArgs(pr) == pr.reviews.pageInfo.endCursor

\* Mutant: the loop over the pull requests goes on after a pull request that
\* reports more reviews.
RECURSIVE ScanPrsNoBreak(_, _, _, _)
ScanPrsNoBreak(prs, i, offset, acc) ==
    IF i > Len(prs) THEN acc
    ELSE LET pr == prs[i]
             after == ScanReviews(pr, pr.reviews.nodes, 1, offset,
                                  [acc EXCEPT !.read = Append(@, pr.number)])
         IN IF after.raised THEN after
            ELSE ScanPrsNoBreak(prs, i + 1, offset,
                     IF pr.reviews.pageInfo.hasNextPage
                     THEN [after EXCEPT !.review_history_args = NextReviewArgs(pr)]
                     ELSE after)

\* for pr in prs, from pull request i on, with the break of line 187.
RECURSIVE ScanPrs(_, _, _, _)
ScanPrs(prs, i, offset, acc) ==
    IF i > Len(prs) THEN acc
    ELSE LET pr == prs[i]
             after == ScanReviews(pr, pr.reviews.nodes, 1, offset,
                                  [acc EXCEPT !.read = Append(@, pr.number)])
         IN IF after.raised THEN after
            ELSE IF pr.reviews.pageInfo.hasNextPage
                 THEN [after EXCEPT !.review_history_args = NextReviewArgs(pr)]
                 ELSE ScanPrs(prs, i + 1, offset, after)

RepoName == org_repos[repo_i][1]

\* One iteration of the inner "while True" of get_reviews, with the part of
\* the outer loop that follows when the inner loop breaks.
GetReviewsPage ==
    /\ pc = "get_reviews"
    /\ Len(requests) < MaxRequests
    /\ \E result \in {ReviewsQuery(server.prs[RepoName], pr_history_args,
                                    review_history_args)} :
       \E scan \in {ScanPrs(result.nodes, 1, utcoffset,
                            [reviewers |-> reviewers, emitted |-> emitted,
                             scanned |-> scanned, read |-> <<>>,
                             review_history_args |-> EmptyArgs, raised |-> FALSE])} :
          /\ requests' = Append(requests, <<pr_history_args, review_history_args>>)
          /\ reviewers' = scan.reviewers
          /\ emitted' = scan.emitted
          /\ scanned' = scan.scanned
          /\ reads' = reads \o [i \in 1..Len(scan.read) |->
                                  <<Len(requests) + 1, scan.read[i], review_history_args>>]
          /\ review_history_args' = scan.review_history_args
          /\ IF scan.raised
             THEN /\ pc' = "raised"
                  /\ exception' = "null_field"
                  /\ UNCHANGED pr_history_args
             ELSE IF scan.review_history_args # EmptyArgs
             THEN UNCHANGED <<pc, exception, pr_history_args>>
             ELSE IF ~result.pageInfo.hasNextPage
             THEN /\ pc' = "get_reviews_returned"
                  /\ UNCHANGED <<exception, pr_history_args>>
             ELSE /\ pr_history_args' = result.pageInfo.endCursor
                  /\ UNCHANGED <<pc, exception>>
    /\ UNCHANGED <<envVars, mainVars, listerVars, commitVars, harnessVars>>

\* The request of get_reviews is answered with a status other than 200
\* (line 150), or without a repository (line 152 subscripts None).
GetReviewsFails ==
    /\ pc = "get_reviews"
    /\ \E e \in {"status_code", "no_repository"} : exception' = e
    /\ pc' = "raised"
    /\ requests' = Append(requests, <<pr_history_args, review_history_args>>)
    /\ UNCHANGED <<envVars, mainVars, listerVars, commitVars, reviewVars, harnessVars>>

----------------------------------------------------------------------------
(* Inputs of get_reviews                                                    *)

ReviewLists(ids, maxLen, reviewAuthors, times) ==
    UNION {
        {[i \in 1..Cardinality(S) |->
            [id |-> Ascending(S)[i], author |-> f[i][1], submittedAt |-> f[i][2]]] :
         f \in [1..Cardinality(S) -> reviewAuthors \X times]} :
        S \in {T \in SUBSET ids : Cardinality(T) <= maxLen}}

\* Review lists whose ids are the positions 1..n.
NumberedReviewLists(maxLen, reviewAuthors, times) ==
    UNION {
        {[i \in 1..n |-> [id |-> i, author |-> f[i][1], submittedAt |-> f[i][2]]] :
         f \in [1..n -> reviewAuthors \X times]} :
        n \in 0..maxLen}

PrLists(maxPrs, prAuthors, reviewLists) ==
    UNION {
        {[i \in 1..k |-> [number |-> i, author |-> f[i][1], reviews |-> f[i][2]]] :
         f \in [1..k -> prAuthors \X reviewLists]} :
        k \in 0..maxPrs}

\* The state at the call get_reviews(key, org_name, repo_name) for a
\* repository "A" holding the pull requests prs.
AtGetReviews(prs, offset) ==
    /\ server = [listing |-> <<>>, prs |-> [n \in {"A"} |-> prs],
                 history |-> [n \in {"A"} |-> <<>>]]
    /\ utcoffset = offset
    /\ args = [show_totals |-> FALSE, csv |-> FALSE]
    /\ one_year_ago_timestamp = 0
    /\ org_repos = <<<<"A", "main">>>>
    /\ repo_i = 1
    /\ authors = <<>>
    /\ reviews = <<>>
    /\ commits = <<>>
    /\ ev_i = 1
    /\ output = <<>>
    /\ repos_args = EmptyArgs
    /\ repos = <<>>
    /\ history_args = EmptyArgs
    /\ commit_list = <<>>
    /\ pr_history_args = EmptyArgs
    /\ review_history_args = EmptyArgs
    /\ reviewers = <<>>
    /\ emitted = <<>>
    /\ scanned = {}
    /\ reads = <<>>
    /\ requests = <<>>
    /\ pass = 1
    /\ authors_prev = <<>>
    /\ pc = "get_reviews"
    /\ exception = ""

\* Pagination: repositories whose reviews differ in their ids only.
InitPaging ==
    \E prs \in PrLists(MaxPRs, {<<"alice">>},
                       ReviewLists(1..MaxReviewId, ReviewPageSize + 1,
                                   {<<"bob">>}, {<<5>>})) :
        AtGetReviews(prs, 0)

\* One pull request, with every combination of null and empty fields.
InitOnePR ==
    \E prs \in {l \in PrLists(1, {None, <<"alice">>},
                              ReviewLists(1..MaxOneReviewId, MaxOneReviewId,
                                          {None, <<"">>, <<"alice">>, <<"bob">>},
                                          {None, <<5>>})) : Len(l) = 1} :
        \E offset \in UtcOffsets : AtGetReviews(prs, offset)

\* Pull requests by two logins, each reviewed by either of them.
InitSelfReview ==
    \E prs \in PrLists(MaxSelfPRs, {<<"alice">>, <<"bob">>},
                       NumberedReviewLists(ReviewPageSize + 1,
                                           {<<"alice">>, <<"bob">>}, {<<5>>})) :
        AtGetReviews(prs, 0)

\* Pagination: repositories whose pull requests differ in the number of
\* their reviews only.
InitCursors ==
    \E prs \in PrLists(MaxPRs, {<<"alice">>},
                       NumberedReviewLists(ReviewPageSize + 1, {<<"bob">>}, {<<5>>})) :
        AtGetReviews(prs, 0)

NextReviews == GetReviewsPage \/ GetReviewsFails

SpecSelfReview == InitSelfReview /\ [][NextReviews]_vars

SpecOnePR == InitOnePR /\ [][NextReviews]_vars

SpecPaging == InitPaging /\ [][NextReviews]_vars

SpecCursors == InitCursors /\ [][NextReviews]_vars

----------------------------------------------------------------------------
(* The aggregation loops of main                                            *)

\* AuthorCounts(), filed under its key
AuthorCounts(author) ==
    [author |-> author, total_commits |-> 0, commits_in_last_year |-> 0,
     total_reviews |-> 0, reviews_in_last_year |-> 0]

\* The position of the key in the dict, 0 when it is not a key.
IndexOf(table, author) ==
    IF \E i \in 1..Len(table) : table[i].author = author
    THEN CHOOSE i \in 1..Len(table) : table[i].author = author
    ELSE 0

\* if not author in authors: authors[author] = AuthorCounts()
GetOrCreate(table, author) ==
    IF IndexOf(table, author) = 0 THEN Append(table, AuthorCounts(author))
    ELSE table

InWindowStrict(date, boundary) == date > boundary

\* date >= one_year_ago_timestamp
InWindow(date, boundary) == date >= boundary

\* Mutant: the counting is the else branch of the creation.
ApplyReviewElse(table, review, boundary) ==
    IF IndexOf(table, review.author) = 0 THEN Append(table, AuthorCounts(review.author))
    ELSE LET i == IndexOf(table, review.author)
         IN [table EXCEPT ![i].total_reviews = @ + 1,
                          ![i].reviews_in_last_year =
                              IF InWindow(review.reviewDate, boundary) THEN @ + 1 ELSE @]

\* The body of "for review in reviews" (lines 310-315).
ApplyReview(table, review, boundary) ==
    LET t == GetOrCreate(table, review.author)
        i == IndexOf(t, review.author)
    IN [t EXCEPT ![i].total_reviews = @ + 1,
                 ![i].reviews_in_last_year =
                     IF InWindow(review.reviewDate, boundary) THEN @ + 1 ELSE @]

\* Mutant: the total is counted only for the commits outside the window.
ApplyCommitEitherOr(table, commit, boundary) ==
    LET t == GetOrCreate(table, commit.author)
        i == IndexOf(t, commit.author)
    IN IF InWindow(commit.authoredDate, boundary)
       THEN [t EXCEPT ![i].commits_in_last_year = @ + 1]
       ELSE [t EXCEPT ![i].total_commits = @ + 1]

\* The body of "for commit in commits" (lines 319-324).
ApplyCommit(table, commit, boundary) ==
    LET t == GetOrCreate(table, commit.author)
        i == IndexOf(t, commit.author)
    IN [t EXCEPT ![i].total_commits = @ + 1,
                 ![i].commits_in_last_year =
                     IF InWindow(commit.authoredDate, boundary) THEN @ + 1 ELSE @]

\* Mutant: the boundary is taken anew for each repository, a day later each
\* time.
BoundaryPerRepository == one_year_ago_timestamp + (repo_i - 1)

\* The boundary the events are compared with (lines 314 and 323).
Boundary == one_year_ago_timestamp

\* One iteration of "for review in reviews".
AggregateReview ==
    /\ pc = "for_reviews"
    /\ ev_i <= Len(reviews)
    /\ authors' = ApplyReview(authors, reviews[ev_i], Boundary)
    /\ ev_i' = ev_i + 1
    /\ UNCHANGED <<envVars, pc, exception, org_repos, repo_i, reviews, commits, output,
                   listerVars, commitVars, reviewVars, requests, harnessVars>>

\* One iteration of "for commit in commits".
AggregateCommit ==
    /\ pc = "for_commits"
    /\ ev_i <= Len(commits)
    /\ authors' = ApplyCommit(authors, commits[ev_i], Boundary)
    /\ ev_i' = ev_i + 1
    /\ UNCHANGED <<envVars, pc, exception, org_repos, repo_i, reviews, commits, output,
                   listerVars, commitVars, reviewVars, requests, harnessVars>>

\* The table is complete: both loops have run to their end (line 325).
Aggregated == pc = "for_commits" /\ ev_i > Len(commits)

----------------------------------------------------------------------------
(* The aggregation loops on given event lists: get_commits is replaced by a *)
(* list fixed in advance, and the loops are run a second time on a          *)
(* permutation of both lists.                                               *)

MaxEvents == 3
MaxPermutedEvents == 3
DaysPerYear == 365
RunDays == {400}

\* The call of line 317 returning the list held in commits.
GetCommitsGiven ==
    /\ pc = "for_reviews"
    /\ ev_i > Len(reviews)
    /\ pc' = "for_commits"
    /\ ev_i' = 1
    /\ UNCHANGED <<envVars, exception, org_repos, repo_i, authors, reviews, commits,
                   output, listerVars, commitVars, reviewVars, requests, harnessVars>>

PermutationsOf(seq) ==
    {[i \in 1..Len(seq) |-> seq[f[i]]] :
     f \in {g \in [1..Len(seq) -> 1..Len(seq)] :
            \A i, j \in 1..Len(seq) : i # j => g[i] # g[j]}}

\* Lines 307-324 once more, on a permutation of the events.
AggregatePermuted ==
    /\ Aggregated
    /\ pass = 1
    /\ pass' = 2
    /\ authors_prev' = authors
    /\ authors' = <<>>
    /\ reviews' \in PermutationsOf(reviews)
    /\ commits' \in PermutationsOf(commits)
    /\ pc' = "for_reviews"
    /\ ev_i' = 1
    /\ UNCHANGED <<envVars, exception, org_repos, repo_i, output,
                   listerVars, commitVars, reviewVars, requests>>

EventLists(maxTotal, reviewEvents, commitEvents) ==
    UNION {UNION {[1..k -> reviewEvents] \X [1..(n - k) -> commitEvents] : k \in 0..n} :
           n \in 0..maxTotal}

\* The state at line 309 for a repository "A" whose walkers return the lists.
AtAggregation(lists, today) ==
    /\ server = [listing |-> <<>>, prs |-> [n \in {"A"} |-> <<>>],
                 history |-> [n \in {"A"} |-> <<>>]]
    /\ utcoffset = 0
    /\ args = [show_totals |-> FALSE, csv |-> FALSE]
    /\ one_year_ago_timestamp = today - DaysPerYear
    /\ org_repos = <<<<"A", "main">>>>
    /\ repo_i = 1
    /\ authors = <<>>
    /\ reviews = lists[1]
    /\ commits = lists[2]
    /\ ev_i = 1
    /\ output = <<>>
    /\ repos_args = EmptyArgs
    /\ repos = <<>>
    /\ history_args = EmptyArgs
    /\ commit_list = <<>>
    /\ pr_history_args = EmptyArgs
    /\ review_history_args = EmptyArgs
    /\ reviewers = <<>>
    /\ emitted = <<>>
    /\ scanned = {}
    /\ reads = <<>>
    /\ requests = <<>>
    /\ pass = 1
    /\ authors_prev = <<>>
    /\ pc = "for_reviews"
    /\ exception = ""

ReviewEvents(logins, dates) == [author : logins, reviewDate : dates]
CommitEvents(logins, dates) == [author : logins, authoredDate : dates]

InitAggregate ==
    \E lists \in EventLists(MaxEvents,
                            ReviewEvents({"alice", "bob"}, {0, 35, 390, 395}),
                            CommitEvents({"alice", "bob"}, {0, 35, 390, 395})) :
        \E today \in RunDays : AtAggregation(lists, today)

InitPermute ==
    \E lists \in EventLists(MaxPermutedEvents,
                            ReviewEvents({"alice", "bob"}, {0, 35, 390}),
                            CommitEvents({"alice", "bob"}, {0, 35, 390})) :
        \E today \in RunDays : AtAggregation(lists, today)

NextAggregate == AggregateReview \/ GetCommitsGiven \/ AggregateCommit

NextPermute == NextAggregate \/ AggregatePermuted

SpecAggregate == InitAggregate /\ [][NextAggregate]_vars

SpecPermute == InitPermute /\ [][NextPermute]_vars

----------------------------------------------------------------------------
(* get_org_repos_from_name                                                  *)

RepoPageSize == 2

\* repositories(first:100, after) of the organization
RepositoriesPage(listing, after) ==
    LET rest == SubSeq(listing, after + 1, Len(listing))
        nodes == SubSeq(rest, 1, Min(RepoPageSize, Len(rest)))
    IN [nodes |-> nodes,
        pageInfo |-> [hasNextPage |-> Len(rest) > RepoPageSize,
                      endCursor |-> after + Len(nodes)]]

\* dict[key] = value: a new key goes last, a known key keeps its place.
DictSet(dict, key, value) ==
    IF \E i \in 1..Len(dict) : dict[i][1] = key
    THEN [i \in 1..Len(dict) |-> IF dict[i][1] = key THEN <<key, value>> ELSE dict[i]]
    ELSE Append(dict, <<key, value>>)

\* Mutant: archived repositories are kept.
RepoSkippedUnlessEmpty(repo) == repo.defaultBranchRef = None

\* The two "continue" of lines 232-237.
RepoSkipped(repo) == repo.defaultBranchRef = None \/ repo.isArchived

\* for repo in ...['nodes'], from node i on.
RECURSIVE AddRepos(_, _, _)
AddRepos(dict, nodes, i) ==
    IF i > Len(nodes) THEN dict
    ELSE AddRepos(IF RepoSkipped(nodes[i]) THEN dict
                  ELSE DictSet(dict, nodes[i].name, nodes[i].defaultBranchRef[1]),
                  nodes, i + 1)

\* One iteration of the "while True" of get_org_repos_from_name.
GetOrgReposPage ==
    /\ pc = "get_org_repos"
    /\ Len(requests) < MaxRequests
    /\ LET result == RepositoriesPage(server.listing, repos_args)
       IN /\ repos' = AddRepos(repos, result.nodes, 1)
          /\ requests' = Append(requests, <<repos_args>>)
          /\ IF ~result.pageInfo.hasNextPage
             THEN pc' = "get_org_repos_returned" /\ UNCHANGED repos_args
             ELSE repos_args' = result.pageInfo.endCursor /\ UNCHANGED pc
    /\ UNCHANGED <<envVars, exception, mainVars, commitVars, reviewVars, harnessVars>>

\* The request is answered with a status other than 200 (line 228), or
\* without an organization (line 230 subscripts None).
GetOrgReposFails ==
    /\ pc = "get_org_repos"
    /\ \E e \in {"status_code", "no_organization"} : exception' = e
    /\ pc' = "raised"
    /\ requests' = Append(requests, <<repos_args>>)
    /\ UNCHANGED <<envVars, mainVars, listerVars, commitVars, reviewVars, harnessVars>>

----------------------------------------------------------------------------
(* get_commits                                                              *)

CommitPageSize == 2

\* history(first: 100, after) of the branch
HistoryPage(history, after) ==
    LET rest == SubSeq(history, after + 1, Len(history))
        nodes == SubSeq(rest, 1, Min(CommitPageSize, Len(rest)))
    IN [nodes |-> nodes,
        pageInfo |-> [hasNextPage |-> Len(rest) > CommitPageSize,
                      endCursor |-> after + Len(nodes)]]

\* Mutant: the name on the commit is taken whether or not an account is linked.
CommitAuthorName(node) == node.author.name

\* Lines 84-92: the login of the linked account, else the name on the commit.
CommitAuthor(node) ==
    IF node.author.user # None THEN node.author.user[1] ELSE node.author.name

CommitEvent(node, offset) ==
    [author |-> CommitAuthor(node),
     authoredDate |-> Timestamp(node.authoredDate, offset)]

\* Mutant: the cursor of line 101 is not taken over.
GetCommitsPageSameCursor ==
    /\ pc = "get_commits"
    /\ Len(requests) < MaxRequests
    /\ LET history == HistoryPage(server.history[RepoName], history_args)
       IN /\ commit_list' = commit_list \o
                 [i \in 1..Len(history.nodes) |-> CommitEvent(history.nodes[i], utcoffset)]
          /\ requests' = Append(requests, <<history_args>>)
          /\ IF ~history.pageInfo.hasNextPage
             THEN pc' = "get_commits_returned" /\ UNCHANGED history_args
             ELSE UNCHANGED <<history_args, pc>>
    /\ UNCHANGED <<envVars, exception, mainVars, listerVars, reviewVars, harnessVars>>

\* One iteration of the "while True" of get_commits.
GetCommitsPage ==
    /\ pc = "get_commits"
    /\ Len(requests) < MaxRequests
    /\ LET history == HistoryPage(server.history[RepoName], history_args)
       IN /\ commit_list' = commit_list \o
                 [i \in 1..Len(history.nodes) |-> CommitEvent(history.nodes[i], utcoffset)]
          /\ requests' = Append(requests, <<history_args>>)
          /\ IF ~history.pageInfo.hasNextPage
             THEN pc' = "get_commits_returned" /\ UNCHANGED history_args
             ELSE history_args' = history.pageInfo.endCursor /\ UNCHANGED pc
    /\ UNCHANGED <<envVars, exception, mainVars, listerVars, reviewVars, harnessVars>>

\* Mutant: a failed request of get_commits is issued again.
GetCommitsFailsAndRetries ==
    /\ pc = "get_commits"
    /\ \E e \in {"status_code", "no_data", "no_repository", "no_ref"} : exception' = e
    /\ pc' = "get_commits"
    /\ requests' = Append(requests, <<history_args>>)
    /\ UNCHANGED <<envVars, mainVars, listerVars, commitVars, reviewVars, harnessVars>>

\* The request is answered with a status other than 200, without data,
\* without the repository or without the ref (lines 71-79).
GetCommitsFails ==
    /\ pc = "get_commits"
    /\ \E e \in {"status_code", "no_data", "no_repository", "no_ref"} : exception' = e
    /\ pc' = "raised"
    /\ requests' = Append(requests, <<history_args>>)
    /\ UNCHANGED <<envVars, mainVars, listerVars, commitVars, reviewVars, harnessVars>>

----------------------------------------------------------------------------
(* Inputs of get_commits                                                    *)

MaxCommits == 5

\* The authors of a commit: a linked account, the same name without an
\* account, and a name that reads as the login.
CommitAuthors ==
    {[name |-> "Alice A", user |-> <<"alice">>],
     [name |-> "Alice A", user |-> None],
     [name |-> "alice", user |-> None]}

\* Histories of commits told apart by their dates.
Histories(maxLen, commitAuthors) ==
    UNION {{[i \in 1..n |-> [author |-> f[i], authoredDate |-> <<i>>]] :
            f \in [1..n -> commitAuthors]} :
           n \in 0..maxLen}

\* The state at the call get_commits(key, org_name, repo_name, branch) for
\* a repository "A" whose branch holds the history.
AtGetCommits(history, offset) ==
    /\ server = [listing |-> <<>>, prs |-> [n \in {"A"} |-> <<>>],
                 history |-> [n \in {"A"} |-> history]]
    /\ utcoffset = offset
    /\ args = [show_totals |-> FALSE, csv |-> FALSE]
    /\ one_year_ago_timestamp = 0
    /\ org_repos = <<<<"A", "main">>>>
    /\ repo_i = 1
    /\ authors = <<>>
    /\ reviews = <<>>
    /\ commits = <<>>
    /\ ev_i = 1
    /\ output = <<>>
    /\ repos_args = EmptyArgs
    /\ repos = <<>>
    /\ history_args = EmptyArgs
    /\ commit_list = <<>>
    /\ pr_history_args = EmptyArgs
    /\ review_history_args = EmptyArgs
    /\ reviewers = <<>>
    /\ emitted = <<>>
    /\ scanned = {}
    /\ reads = <<>>
    /\ requests = <<>>
    /\ pass = 1
    /\ authors_prev = <<>>
    /\ pc = "get_commits"
    /\ exception = ""

InitCommits ==
    \E history \in Histories(MaxCommits, CommitAuthors) :
        \E offset \in UtcOffsets : AtGetCommits(history, offset)

NextCommits == GetCommitsPage \/ GetCommitsFails

SpecCommits == InitCommits /\ [][NextCommits]_vars

----------------------------------------------------------------------------
(* print_authors, print_csv                                                 *)

SortKey(counts) == counts.commits_in_last_year + counts.reviews_in_last_year

\* Mutant: x is inserted before the elements of equal key.
InsertDescendingStrict(sorted, x) ==
    LET n == Cardinality({i \in 1..Len(sorted) : SortKey(sorted[i]) > SortKey(x)})
    IN SubSeq(sorted, 1, n) \o <<x>> \o SubSeq(sorted, n + 1, Len(sorted))

\* Insert x after the elements of the descending sequence whose key is not
\* smaller.
InsertDescending(sorted, x) ==
    LET n == Cardinality({i \in 1..Len(sorted) : SortKey(sorted[i]) >= SortKey(x)})
    IN SubSeq(sorted, 1, n) \o <<x>> \o SubSeq(sorted, n + 1, Len(sorted))

\* sorted(authors.items(), key=..., reverse=True): stable.
RECURSIVE SortedAuthors(_)
SortedAuthors(table) ==
    IF table = <<>> THEN <<>>
    ELSE InsertDescending(SortedAuthors(SubSeq(table, 1, Len(table) - 1)),
                          table[Len(table)])

\* The rows print_authors prints for a table in a mode (lines 257-269).
Rows(table, print_totals) ==
    IF print_totals THEN SortedAuthors(table)
    ELSE SelectSeq(SortedAuthors(table),
                   LAMBDA c : ~(c.commits_in_last_year = 0 /\ c.reviews_in_last_year = 0))

\* Mutant: print_csv skips an author when either windowed counter is zero.
CsvRowsEitherZero(table, print_totals) ==
    IF print_totals THEN SortedAuthors(table)
    ELSE SelectSeq(SortedAuthors(table),
                   LAMBDA c : ~(c.commits_in_last_year = 0 \/ c.reviews_in_last_year = 0))

\* The rows print_csv prints for a table in a mode (lines 274-285).
CsvRows(table, print_totals) ==
    IF print_totals THEN SortedAuthors(table)
    ELSE SelectSeq(SortedAuthors(table),
                   LAMBDA c : ~(c.commits_in_last_year = 0 /\ c.reviews_in_last_year = 0))

print_authors(table, print_totals) ==
    [kind |-> "table", totals |-> print_totals, rows |-> Rows(table, print_totals)]

print_csv(table, print_totals) ==
    [kind |-> "csv", totals |-> print_totals, rows |-> CsvRows(table, print_totals)]

----------------------------------------------------------------------------
(* The reporters on given tables: each of the two is called once on the     *)
(* same table.                                                              *)

CallPrintAuthors ==
    /\ pc = "print"
    /\ \A i \in 1..Len(output) : output[i].kind # "table"
    /\ output' = Append(output, print_authors(authors, args.show_totals))
    /\ UNCHANGED <<envVars, pc, exception, org_repos, repo_i, authors, reviews, commits,
                   ev_i, listerVars, commitVars, reviewVars, requests, harnessVars>>

CallPrintCsv ==
    /\ pc = "print"
    /\ \A i \in 1..Len(output) : output[i].kind # "csv"
    /\ output' = Append(output, print_csv(authors, args.show_totals))
    /\ UNCHANGED <<envVars, pc, exception, org_repos, repo_i, authors, reviews, commits,
                   ev_i, listerVars, commitVars, reviewVars, requests, harnessVars>>

\* The counters the loops of main can give an author: the windowed counters
\* are within the totals, and an author has at least one event.
CounterValues ==
    {c \in [total_commits : 0..2, commits_in_last_year : 0..1,
            total_reviews : 0..2, reviews_in_last_year : 0..1] :
        /\ c.total_commits - c.commits_in_last_year \in 0..1
        /\ c.total_reviews - c.reviews_in_last_year = c.total_commits - c.commits_in_last_year
        /\ c.total_commits + c.total_reviews > 0}

\* Tables of distinct authors.
Tables(names, counters) ==
    UNION {
        {[i \in 1..k |-> [author |-> n[i],
                          total_commits |-> f[i].total_commits,
                          commits_in_last_year |-> f[i].commits_in_last_year,
                          total_reviews |-> f[i].total_reviews,
                          reviews_in_last_year |-> f[i].reviews_in_last_year]] :
         n \in {m \in [1..k -> names] : \A i, j \in 1..k : i # j => m[i] # m[j]},
         f \in [1..k -> counters]} :
        k \in 0..Cardinality(names)}

\* The state at line 326 for a repository "A" whose table is given.
AtReport(table, flags) ==
    /\ server = [listing |-> <<>>, prs |-> [n \in {"A"} |-> <<>>],
                 history |-> [n \in {"A"} |-> <<>>]]
    /\ utcoffset = 0
    /\ args = flags
    /\ one_year_ago_timestamp = 0
    /\ org_repos = <<<<"A", "main">>>>
    /\ repo_i = 1
    /\ authors = table
    /\ reviews = <<>>
    /\ commits = <<>>
    /\ ev_i = 1
    /\ output = <<>>
    /\ repos_args = EmptyArgs
    /\ repos = <<>>
    /\ history_args = EmptyArgs
    /\ commit_list = <<>>
    /\ pr_history_args = EmptyArgs
    /\ review_history_args = EmptyArgs
    /\ reviewers = <<>>
    /\ emitted = <<>>
    /\ scanned = {}
    /\ reads = <<>>
    /\ requests = <<>>
    /\ pass = 1
    /\ authors_prev = <<>>
    /\ pc = "print"
    /\ exception = ""

InitReport ==
    \E table \in Tables({"alice", "bob", "carol"}, CounterValues) :
        \E show_totals \in BOOLEAN :
            AtReport(table, [show_totals |-> show_totals, csv |-> FALSE])

NextReport == CallPrintAuthors \/ CallPrintCsv

SpecReport == InitReport /\ [][NextReport]_vars

----------------------------------------------------------------------------
(* main                                                                     *)

PrintedLine(text) == [kind |-> "line", totals |-> FALSE, rows |-> <<text>>]

\* Mutant: the table is not emptied at the entry of the loop body.
EnterRepoKeepsTable(i, printed) ==
    /\ repo_i' = i
    /\ IF i <= Len(org_repos')
       THEN /\ output' = Append(printed, PrintedLine(org_repos'[i][1]))
            /\ authors' = authors
            /\ pc' = "get_reviews"
       ELSE /\ output' = printed
            /\ authors' = authors
            /\ pc' = "done"
    /\ pr_history_args' = EmptyArgs
    /\ review_history_args' = EmptyArgs
    /\ reviewers' = <<>>
    /\ emitted' = <<>>
    /\ scanned' = {}
    /\ reads' = <<>>
    /\ requests' = <<>>

\* The entry of the for loop of line 305 at position i: print(repo_name),
\* authors = {}, and the call of get_reviews; past the last item, the end.
EnterRepo(i, printed) ==
    /\ repo_i' = i
    /\ IF i <= Len(org_repos')
       THEN /\ output' = Append(printed, PrintedLine(org_repos'[i][1]))
            /\ authors' = <<>>
            /\ pc' = "get_reviews"
       ELSE /\ output' = printed
            /\ authors' = authors
            /\ pc' = "done"
    /\ pr_history_args' = EmptyArgs
    /\ review_history_args' = EmptyArgs
    /\ reviewers' = <<>>
    /\ emitted' = <<>>
    /\ scanned' = {}
    /\ reads' = <<>>
    /\ requests' = <<>>

\* Lines 303-308: the lister has returned.
ListerReturns ==
    /\ pc = "get_org_repos_returned"
    /\ org_repos' = repos
    /\ EnterRepo(1, Append(output, PrintedLine("Data as of")))
    /\ UNCHANGED <<envVars, exception, reviews, commits, ev_i, listerVars, commitVars,
                   harnessVars>>

\* Lines 308-309: get_reviews has returned.
ReviewsReturn ==
    /\ pc = "get_reviews_returned"
    /\ reviews' = reviewers
    /\ ev_i' = 1
    /\ pc' = "for_reviews"
    /\ UNCHANGED <<envVars, exception, org_repos, repo_i, authors, commits, output,
                   listerVars, commitVars, reviewVars, requests, harnessVars>>

\* Line 317: the review loop is over, get_commits is called.
CallGetCommits ==
    /\ pc = "for_reviews"
    /\ ev_i > Len(reviews)
    /\ pc' = "get_commits"
    /\ history_args' = EmptyArgs
    /\ commit_list' = <<>>
    /\ requests' = <<>>
    /\ UNCHANGED <<envVars, exception, mainVars, listerVars, reviewVars, harnessVars>>

\* Lines 317-318: get_commits has returned.
CommitsReturn ==
    /\ pc = "get_commits_returned"
    /\ commits' = commit_list
    /\ ev_i' = 1
    /\ pc' = "for_commits"
    /\ UNCHANGED <<envVars, exception, org_repos, repo_i, authors, reviews, output,
                   listerVars, commitVars, reviewVars, requests, harnessVars>>

\* Lines 326-329, and the next iteration of the for loop of line 305.
PrintReport ==
    /\ Aggregated
    /\ UNCHANGED org_repos
    /\ EnterRepo(repo_i + 1,
                 Append(output, IF args.csv THEN print_csv(authors, args.show_totals)
                                ELSE print_authors(authors, args.show_totals)))
    /\ UNCHANGED <<envVars, exception, reviews, commits, ev_i, listerVars, commitVars,
                   harnessVars>>

----------------------------------------------------------------------------
(* Inputs of the lister and of main                                         *)

\* Listings of distinct repositories.
Listings(names, maxLen, branches) ==
    UNION {
        {[i \in 1..k |-> [name |-> n[i], defaultBranchRef |-> f[i][1],
                          isArchived |-> f[i][2]]] :
         n \in {m \in [1..k -> names] : \A i, j \in 1..k : i # j => m[i] # m[j]},
         f \in [1..k -> branches \X BOOLEAN]} :
        k \in 0..maxLen}

\* The state at line 303, the call of the lister, of a run started on day
\* today.
AtMain(data, offset, flags, today) ==
    /\ server = data
    /\ utcoffset = offset
    /\ args = flags
    /\ one_year_ago_timestamp = today - DaysPerYear
    /\ org_repos = <<>>
    /\ repo_i = 1
    /\ authors = <<>>
    /\ reviews = <<>>
    /\ commits = <<>>
    /\ ev_i = 1
    /\ output = <<>>
    /\ repos_args = EmptyArgs
    /\ repos = <<>>
    /\ history_args = EmptyArgs
    /\ commit_list = <<>>
    /\ pr_history_args = EmptyArgs
    /\ review_history_args = EmptyArgs
    /\ reviewers = <<>>
    /\ emitted = <<>>
    /\ scanned = {}
    /\ reads = <<>>
    /\ requests = <<>>
    /\ pass = 1
    /\ authors_prev = <<>>
    /\ pc = "get_org_repos"
    /\ exception = ""

InitLister ==
    \E listing \in Listings({"A", "B", "C"}, 3, {None, <<"main">>, <<"dev">>}) :
        AtMain([listing |-> listing, prs |-> <<>>, history |-> <<>>], 0,
               [show_totals |-> FALSE, csv |-> FALSE], 400)

NextLister == GetOrgReposPage \/ GetOrgReposFails

SpecLister == InitLister /\ [][NextLister]_vars

\* Each of the three walkers on its own, every request answered with a page.
\* The process keeps running: a walker that can take its next step takes it.
InitWalkers ==
    \/ InitCursors
    \/ \E history \in Histories(MaxCommits, {[name |-> "Alice A", user |-> None]}) :
           AtGetCommits(history, 0)
    \/ \E listing \in Listings({"A", "B", "C"}, 3, {<<"main">>}) :
           AtMain([listing |-> listing, prs |-> <<>>, history |-> <<>>], 0,
                  [show_totals |-> FALSE, csv |-> FALSE], 400)

NextWalkers == GetReviewsPage \/ GetCommitsPage \/ GetOrgReposPage

SpecWalkers == InitWalkers /\ [][NextWalkers]_vars /\ WF_vars(NextWalkers)

\* Pull requests and histories that the repositories of a run may hold.
MainPrs ==
    {<<>>,
     <<[number |-> 1, author |-> <<"bob">>,
        reviews |-> <<[id |-> 1, author |-> <<"alice">>, submittedAt |-> <<395>>],
                      [id |-> 2, author |-> <<"bob">>, submittedAt |-> <<396>>]>>]>>}

MainHistories ==
    {<<[author |-> [name |-> "Alice A", user |-> <<"alice">>], authoredDate |-> <<390>>]>>,
     <<[author |-> [name |-> "Alice A", user |-> <<"alice">>], authoredDate |-> <<390>>],
       [author |-> [name |-> "Bob B", user |-> <<"bob">>], authoredDate |-> <<0>>],
       [author |-> [name |-> "Bob B", user |-> None], authoredDate |-> <<35>>]>>}

InitMain ==
    \E listing \in Listings({"A", "B"}, 2, {None, <<"main">>}),
       prs \in [{"A", "B"} -> MainPrs],
       history \in [{"A", "B"} -> MainHistories],
       offset \in UtcOffsets,
       flags \in [show_totals : BOOLEAN, csv : BOOLEAN],
       today \in RunDays :
        AtMain([listing |-> listing, prs |-> prs, history |-> history],
               offset, flags, today)

NextMain ==
    \/ GetOrgReposPage \/ GetOrgReposFails \/ ListerReturns
    \/ GetReviewsPage \/ GetReviewsFails \/ ReviewsReturn
    \/ AggregateReview \/ CallGetCommits
    \/ GetCommitsPage \/ GetCommitsFails \/ CommitsReturn
    \/ AggregateCommit \/ PrintReport

SpecMain == InitMain /\ [][NextMain]_vars

----------------------------------------------------------------------------
(* Claims about get_reviews                                                 *)

Prs == server.prs[RepoName]

\* A review that the walker owes an event for: its author is not null and is
\* not the author of the pull request, and it was submitted.
Qualifying(pr, review) ==
    /\ review.author # None
    /\ review.author[1] # (IF pr.author = None THEN "" ELSE pr.author[1])
    /\ review.submittedAt # None

EmittedCount(number, id) ==
    Cardinality({i \in 1..Len(emitted) : emitted[i] = <<number, id>>})

\* C1: when get_reviews returns, every qualifying review of every pull
\* request of the repository has an event in the returned list.
C1_NoReviewOmitted ==
    pc = "get_reviews_returned" =>
        \A p \in 1..Len(Prs) : \A k \in 1..Len(Prs[p].reviews) :
            Qualifying(Prs[p], Prs[p].reviews[k]) =>
                EmittedCount(p, Prs[p].reviews[k].id) >= 1

\* C2: in every state of get_reviews no review has two events in the result.
C2_NoReviewTwice ==
    \A i \in 1..Len(emitted) : \A j \in 1..Len(emitted) :
        i # j => emitted[i] # emitted[j]

Returned == pc = "get_reviews_returned"

\* The <<pr number, review id>> of the qualifying reviews of pull request p,
\* in the order of the connection.
QualifyingOf(p) ==
    LET q == SelectSeq(Prs[p].reviews, LAMBDA r : Qualifying(Prs[p], r))
    IN [k \in 1..Len(q) |-> <<p, q[k].id>>]

CeilDiv(n, d) == (n + d - 1) \div d

\* Request k + 1 carries the outer cursor of request k and, as inner cursor,
\* the end-of-page token of the only pull request in the response to request k.
InnerCursorChained ==
    \A k \in 1..(Len(requests) - 1) :
        /\ requests[k + 1][1] = requests[k][1]
        /\ requests[k + 1][2] =
              ReviewsConnection(Prs[1], requests[k][2]).pageInfo.endCursor

\* C3 as stated: one pull request with n reviews is walked with exactly
\* ceil(n/p) requests, emitting exactly its qualifying reviews, each once.
C3_OnePrCeilRequests ==
    Returned =>
        /\ emitted = QualifyingOf(1)
        /\ Len(requests) = CeilDiv(Len(Prs[1].reviews), ReviewPageSize)
        /\ InnerCursorChained

\* C3 amended: the same, with one request when the pull request has no
\* review at all: max(1, ceil(n/p)) requests.
C3_OnePrRequests ==
    Returned =>
        /\ emitted = QualifyingOf(1)
        /\ Len(requests) = IF Prs[1].reviews = <<>> THEN 1
                           ELSE CeilDiv(Len(Prs[1].reviews), ReviewPageSize)
        /\ InnerCursorChained

\* C3 witness: a pull request with more than two pages of reviews was walked.
C3_Witness ==
    /\ Returned
    /\ Len(Prs[1].reviews) > 2 * ReviewPageSize
    /\ Len(requests) = 3
    /\ Len(emitted) = Len(Prs[1].reviews)

ReviewOf(p, id) == CHOOSE r \in {Prs[p].reviews[k] : k \in 1..Len(Prs[p].reviews)} : r.id = id

SelfReview(p, id) == Prs[p].author # None /\ ReviewOf(p, id).author = Prs[p].author

\* C4: no element of the result comes from a review whose author login is
\* the login of the author of its pull request.
C4_NoSelfReview ==
    \A i \in 1..Len(emitted) : ~SelfReview(emitted[i][1], emitted[i][2])

\* C4 witness: the walker returned after several requests in which it read
\* a self-review and a review by somebody else.
C4_Witness ==
    /\ Returned
    /\ Len(requests) > 1
    /\ \E x \in scanned : SelfReview(x[1], x[2])
    /\ emitted # <<>>

\* C5: no exception comes from a null field; a review without author or
\* without submittedAt that the walker read has no event; a submitted review
\* by a non-empty login on a pull request without author has one; every
\* event carries the login and the timestamp of a review that has both.
C5_NullSafe ==
    /\ exception # "null_field"
    /\ \A x \in scanned :
          LET r == ReviewOf(x[1], x[2])
          IN /\ r.author = None => EmittedCount(x[1], x[2]) = 0
             /\ r.submittedAt = None => EmittedCount(x[1], x[2]) = 0
             /\ (/\ Prs[x[1]].author = None
                 /\ r.author # None
                 /\ r.submittedAt # None) =>
                    (EmittedCount(x[1], x[2]) = 0 <=> r.author = <<"">>)
    /\ Len(reviewers) = Len(emitted)
    /\ \A i \in 1..Len(emitted) :
          LET r == ReviewOf(emitted[i][1], emitted[i][2])
          IN /\ r.author # None
             /\ r.submittedAt # None
             /\ reviewers[i] = [author |-> r.author[1],
                                reviewDate |-> r.submittedAt[1] - utcoffset]

\* C5 witness: on a pull request without author the walker read a review
\* without author, an unsubmitted review and a review it emitted.
C5_Witness ==
    /\ Returned
    /\ Prs[1].author = None
    /\ \E x \in scanned : ReviewOf(x[1], x[2]).author = None
    /\ \E x \in scanned : /\ ReviewOf(x[1], x[2]).author # None
                          /\ ReviewOf(x[1], x[2]).submittedAt = None
    /\ emitted # <<>>

----------------------------------------------------------------------------
(* Claims about the aggregation                                             *)

Records(table) == {table[i] : i \in 1..Len(table)}

\* C6: the table built from a permutation of the review events and of the
\* commit events holds the same authors with the same four counters.
C6_OrderIndependent ==
    (Aggregated /\ pass = 2) => Records(authors) = Records(authors_prev)

\* C6 witness: the second run met the authors in another order.
C6_Witness ==
    /\ Aggregated
    /\ pass = 2
    /\ authors # authors_prev
    /\ \E i \in 1..Len(authors) : authors[i].total_reviews > 1

\* C7: after every single event, in every record,
\* 0 <= commits_in_last_year <= total_commits and
\* 0 <= reviews_in_last_year <= total_reviews.
C7_WindowWithinTotal ==
    \A i \in 1..Len(authors) :
        /\ 0 <= authors[i].commits_in_last_year
        /\ authors[i].commits_in_last_year <= authors[i].total_commits
        /\ 0 <= authors[i].reviews_in_last_year
        /\ authors[i].reviews_in_last_year <= authors[i].total_reviews

\* C7 witness: in the middle of the commit loop one record has fewer commits
\* in the window than in total and one has reviews in the window.
C7_Witness ==
    /\ pc = "for_commits"
    /\ 1 < ev_i
    /\ ev_i <= Len(commits)
    /\ \E i \in 1..Len(authors) :
          authors[i].commits_in_last_year < authors[i].total_commits
    /\ \E i \in 1..Len(authors) : authors[i].reviews_in_last_year > 0

CountOf(events, P(_)) == Cardinality({i \in 1..Len(events) : P(events[i])})

\* The counts the events give an author.
Reference(a) ==
    [author |-> a,
     total_commits |-> CountOf(commits, LAMBDA e : e.author = a),
     commits_in_last_year |->
         CountOf(commits, LAMBDA e : e.author = a
                                      /\ e.authoredDate >= one_year_ago_timestamp),
     total_reviews |-> CountOf(reviews, LAMBDA e : e.author = a),
     reviews_in_last_year |->
         CountOf(reviews, LAMBDA e : e.author = a
                                      /\ e.reviewDate >= one_year_ago_timestamp)]

EventAuthors ==
    {commits[i].author : i \in 1..Len(commits)} \cup
    {reviews[i].author : i \in 1..Len(reviews)}

\* The example of the specification, in days: now = 400, boundary = 35.
ExampleEvents ==
    /\ commits = <<[author |-> "alice", authoredDate |-> 390],
                   [author |-> "bob", authoredDate |-> 0]>>
    /\ reviews = <<[author |-> "alice", reviewDate |-> 395]>>
    /\ one_year_ago_timestamp = 35

\* C8: the complete table has exactly one record per author named by an
\* event, holding the reference counts (an event at the boundary is in the
\* window); on the example it is alice 1/1, 1/1 and bob 0/1, 0/0.
C8_ReferenceCounts ==
    Aggregated =>
        /\ Records(authors) = {Reference(a) : a \in EventAuthors}
        /\ Len(authors) = Cardinality(EventAuthors)
        /\ ExampleEvents =>
              Records(authors) =
                 {[author |-> "alice", total_commits |-> 1, commits_in_last_year |-> 1,
                   total_reviews |-> 1, reviews_in_last_year |-> 1],
                  [author |-> "bob", total_commits |-> 1, commits_in_last_year |-> 0,
                   total_reviews |-> 0, reviews_in_last_year |-> 0]}

\* C8 witness: the table of the example is complete.
C8_Witness == Aggregated /\ ExampleEvents

----------------------------------------------------------------------------
(* Claims about the lister and about main                                   *)

Listed == {server.listing[i] : i \in 1..Len(server.listing)}

\* The listing of the example: A archived, B without default branch, C normal.
ExampleListing ==
    server.listing =
        <<[name |-> "A", defaultBranchRef |-> <<"main">>, isArchived |-> TRUE],
          [name |-> "B", defaultBranchRef |-> None, isArchived |-> FALSE],
          [name |-> "C", defaultBranchRef |-> <<"main">>, isArchived |-> FALSE]>>

\* C9: the mapping returned by the lister has one key per repository that
\* is not archived and has a default branch, mapped to that branch's name,
\* and no other key; on the example it is {C: main}.
C9_ListerFilters ==
    pc = "get_org_repos_returned" =>
        /\ {repos[i] : i \in 1..Len(repos)} =
              {<<r.name, r.defaultBranchRef[1]>> :
               r \in {x \in Listed : ~x.isArchived /\ x.defaultBranchRef # None}}
        /\ \A i, j \in 1..Len(repos) : i # j => repos[i][1] # repos[j][1]
        /\ ExampleListing => repos = <<<<"C", "main">>>>

\* C9 witness: the lister returned from the example listing, read in two pages.
C9_Witness ==
    /\ pc = "get_org_repos_returned"
    /\ ExampleListing
    /\ Len(requests) > 1

Reports == {i \in 1..Len(output) : output[i].kind \in {"table", "csv"}}

\* C10: when a request of the run has failed, no report has been printed.
C10_NoReportBeforeFailure == pc = "raised" => Reports = {}

----------------------------------------------------------------------------
(* Claims about failed requests                                             *)

\* What main holds of the walkers' results, and what it has printed.
Received == <<org_repos, authors, reviews, commits, output>>

\* C11: a request of the lister, of get_reviews or of get_commits that fails
\* (status, or no repository or ref in the response) ends the run at once:
\* the step that sets the exception is the request itself and leads to the
\* raised position, it hands nothing to main, and no step follows it, so that
\* neither this request nor any other is issued afterwards.
C11_FailureEndsRun ==
    [][/\ pc # "raised"
       /\ (exception' # "" \/ pc' = "raised") =>
              /\ pc' = "raised" /\ exception' # ""
              /\ Len(requests') = Len(requests) + 1
              /\ Received' = Received]_vars

\* A request for the second page of a history has failed, in the second
\* repository of the run, after get_reviews had returned events.
C11_Witness ==
    /\ pc = "raised"
    /\ exception = "no_ref"
    /\ repo_i = 2
    /\ Len(requests) = 2
    /\ reviewers # <<>>
    /\ commit_list # <<>>
    /\ commits # commit_list

----------------------------------------------------------------------------
(* Claims about the reporters                                               *)

\* The rows hold records of the table, in descending order of the sort key,
\* records of equal key in the order the table has them.
StableDescending(rows, table) ==
    /\ \A i \in 1..Len(rows) : IndexOf(table, rows[i].author) # 0
                               /\ rows[i] = table[IndexOf(table, rows[i].author)]
    /\ \A i, j \in 1..Len(rows) :
          i < j => \/ SortKey(rows[i]) > SortKey(rows[j])
                   \/ /\ SortKey(rows[i]) = SortKey(rows[j])
                      /\ IndexOf(table, rows[i].author) < IndexOf(table, rows[j].author)

\* C12: print_authors and print_csv print the authors in descending order of
\* commits_in_last_year + reviews_in_last_year, authors of equal key in the
\* insertion order of the table.
C12_StableDescendingOrder ==
    \A i \in Reports : StableDescending(output[i].rows, authors)

\* Both reporters have printed a table of three authors in which the sort
\* moved a later author to the front and two authors have the same key.
C12_Witness ==
    /\ Cardinality(Reports) = 2
    /\ Len(authors) = 3
    /\ SortKey(authors[1]) = SortKey(authors[2])
    /\ SortKey(authors[3]) > SortKey(authors[1])
    /\ \A i \in Reports : Len(output[i].rows) = 3

\* The authors of the rows, in the order of the rows.
RowAuthors(rows) == [i \in 1..Len(rows) |-> rows[i].author]

\* The records a mode prints: all of them with the totals, else those with a
\* positive windowed counter.
Printable(table, print_totals) ==
    {c \in Records(table) :
        print_totals \/ c.commits_in_last_year > 0 \/ c.reviews_in_last_year > 0}

\* C13: without the totals the rows are exactly the authors with
\* commits_in_last_year > 0 or reviews_in_last_year > 0, with the totals every
\* author has a row, each author at most one; and the table and the CSV of the
\* same table and mode hold the same authors in the same order.
C13_RowsOfMode ==
    /\ \A i \in Reports :
          /\ output[i].totals = args.show_totals
          /\ Records(output[i].rows) = Printable(authors, args.show_totals)
          /\ Len(output[i].rows) = Cardinality(Printable(authors, args.show_totals))
    /\ \A i, j \in Reports : RowAuthors(output[i].rows) = RowAuthors(output[j].rows)

\* Both reporters have printed, without the totals, a table of three authors
\* of which one has no event in the window and one has reviews only.
C13_Witness ==
    /\ Cardinality(Reports) = 2
    /\ ~args.show_totals
    /\ Len(authors) = 3
    /\ \E i \in 1..3 : SortKey(authors[i]) = 0
    /\ \E i \in 1..3 : authors[i].commits_in_last_year = 0
                       /\ authors[i].reviews_in_last_year > 0
    /\ \A i \in Reports : Len(output[i].rows) = 2

----------------------------------------------------------------------------
(* Claims about the two cursors of get_reviews                              *)

\* C14: the review argument belongs to one pull request: the first time
\* get_reviews iterates over a pull request its reviews were served from
\* their first page (empty review argument), and a review argument that is
\* not empty is the end cursor of a page of that same pull request read
\* before.
C14_InnerCursorPerPullRequest ==
    \A k \in 1..Len(reads) :
        LET p == reads[k][2]
            c == reads[k][3]
            earlier == {j \in 1..(k - 1) : reads[j][2] = p}
        IN IF earlier = {} THEN c = EmptyArgs
           ELSE c # EmptyArgs =>
                    \E j \in earlier :
                        LET page == ReviewsConnection(Prs[p], reads[j][3]).pageInfo
                        IN page.hasNextPage /\ page.endCursor = c

\* The requests of get_reviews that were answered with a page.
Answered ==
    {k \in 1..Len(requests) :
        k < Len(requests) \/ exception \notin {"status_code", "no_repository"}}

\* The page that answered request k.
Response(k) == ReviewsQuery(Prs, requests[k][1], requests[k][2])

\* The positions in a page of the pull requests that report more reviews.
MoreReviews(page) ==
    {i \in 1..Len(page.nodes) : page.nodes[i].reviews.pageInfo.hasNextPage}

\* The cursors of the request that follows request k: those of request k + 1,
\* or those the walker holds for its next request.
Following(k) ==
    IF k < Len(requests) THEN requests[k + 1]
    ELSE <<pr_history_args, review_history_args>>

\* The numbers of the pull requests iterated over in the page of request k.
ReadIn(k) == {reads[j][2] : j \in {i \in 1..Len(reads) : reads[i][1] = k}}

\* C15: when a pull request of a fetched page reports more reviews, no later
\* pull request of that page is iterated over, the walker does not return,
\* and the following request carries the same pull request cursor and, as
\* review argument, the end cursor of that pull request's review page.
C15_BreakOnMoreReviews ==
    \A k \in Answered :
        LET page == Response(k)
        IN MoreReviews(page) # {} =>
               LET m == CHOOSE i \in MoreReviews(page) :
                            \A j \in MoreReviews(page) : i <= j
               IN /\ ReadIn(k) = {page.nodes[i].number : i \in 1..m}
                  /\ k = Len(requests) => pc = "get_reviews"
                  /\ Following(k) = <<requests[k][1],
                                      page.nodes[m].reviews.pageInfo.endCursor>>

\* The first pull request of a page of two has reported more reviews: the
\* second one was not iterated over and the page is about to be asked again.
C15_Witness ==
    /\ pc = "get_reviews"
    /\ Len(requests) = 1
    /\ Len(Response(1).nodes) = 2
    /\ 1 \in MoreReviews(Response(1))
    /\ Prs[2].reviews # <<>>
    /\ ReadIn(1) = {1}
    /\ review_history_args # EmptyArgs

\* C16: the pull request cursor changes between two requests only when the
\* page that answered the first had every pull request iterated over, none
\* reporting more reviews, and reported more pull requests; the following
\* request then carries the end cursor of that page and an empty review
\* argument.  get_reviews returns only after a page that reports neither more
\* pull requests nor, for any of its pull requests, more reviews.
C16_LeavesPageWhenDrained ==
    /\ \A k \in Answered :
          LET page == Response(k)
          IN /\ k < Len(requests) \/ pc = "get_reviews"
             /\ Following(k)[1] # requests[k][1]
             => /\ MoreReviews(page) = {}
                /\ ReadIn(k) = {page.nodes[i].number : i \in 1..Len(page.nodes)}
                /\ page.pageInfo.hasNextPage
                /\ Following(k) = <<page.pageInfo.endCursor, EmptyArgs>>
    /\ Returned =>
          /\ Len(requests) \in Answered
          /\ MoreReviews(Response(Len(requests))) = {}
          /\ ~Response(Len(requests)).pageInfo.hasNextPage

\* get_reviews has returned after two pages of pull requests, the first of
\* which was asked again with a review argument before it was left.
C16_Witness ==
    /\ Returned
    /\ \E k \in 1..(Len(requests) - 1) :
          /\ requests[k][2] # EmptyArgs
          /\ requests[k + 1][1] # requests[k][1]
    /\ requests[Len(requests)][2] # EmptyArgs

----------------------------------------------------------------------------
(* Claims about the termination of the walkers                              *)

\* No request of the current walker carries the cursors of an earlier one.
NoRequestTwice ==
    \A i, j \in 1..Len(requests) : i # j => requests[i] # requests[j]

\* The positions at which a walker has returned.
WalkerReturned ==
    pc \in {"get_reviews_returned", "get_commits_returned", "get_org_repos_returned"}

\* C17: on finite data served in pages whose end cursors advance, every
\* request answered, get_reviews returns, and so do get_commits and
\* get_org_repos_from_name; no walker issues a request with the same cursors
\* twice, and the number of requests stays below MaxRequests.
C17_WalkersReturn ==
    /\ [](NoRequestTwice /\ Len(requests) < MaxRequests)
    /\ <>WalkerReturned

\* get_reviews has returned after asking the first page of pull requests
\* twice and a second page after it.
C17_Witness ==
    /\ pc = "get_reviews_returned"
    /\ Len(requests) >= 3
    /\ requests[2][2] # EmptyArgs
    /\ requests[Len(requests)][1] # EmptyArgs

----------------------------------------------------------------------------
(* Claims about the run over the repositories                               *)

\* The events the loops of lines 309-324 have gone through in the current
\* repository.
ReviewsCounted ==
    IF pc = "for_reviews" THEN SubSeq(reviews, 1, ev_i - 1)
    ELSE IF pc \in {"get_commits", "get_commits_returned", "for_commits"} THEN reviews
    ELSE <<>>

CommitsCounted == IF pc = "for_commits" THEN SubSeq(commits, 1, ev_i - 1) ELSE <<>>

\* C18: the boundary is the day of the start of the run minus 365 days; no
\* step of the run changes it, and in every repository the windowed counters
\* count the events gone through that are not older than this one value.
C18_BoundaryFixed ==
    /\ [][one_year_ago_timestamp' = one_year_ago_timestamp]_vars
    /\ [](/\ one_year_ago_timestamp \in {today - DaysPerYear : today \in RunDays}
          /\ pc \in {"for_reviews", "get_commits", "get_commits_returned", "for_commits"}
             => \A i \in 1..Len(authors) :
                   /\ authors[i].reviews_in_last_year =
                         CountOf(ReviewsCounted,
                                 LAMBDA e : e.author = authors[i].author
                                            /\ e.reviewDate >= one_year_ago_timestamp)
                   /\ authors[i].commits_in_last_year =
                         CountOf(CommitsCounted,
                                 LAMBDA e : e.author = authors[i].author
                                            /\ e.authoredDate >= one_year_ago_timestamp))

\* The table of the second repository of a run is complete, and a commit of
\* that repository was made at the boundary.
C18_Witness ==
    /\ Aggregated
    /\ repo_i = 2
    /\ reviews # <<>>
    /\ \E i \in 1..Len(commits) : commits[i].authoredDate = one_year_ago_timestamp

\* The positions of the body of the for loop of line 305.
InRepository ==
    pc \in {"get_reviews", "get_reviews_returned", "for_reviews", "get_commits",
            "get_commits_returned", "for_commits"}

\* The commit events of the history of the current repository.
CommitsOfRepository ==
    [i \in 1..Len(server.history[RepoName]) |->
        CommitEvent(server.history[RepoName][i], utcoffset)]

\* The counts that the review events returned for the current repository and
\* the commits of its history give an author.
CountsOfRepository(a) ==
    [author |-> a,
     total_commits |-> CountOf(CommitsOfRepository, LAMBDA e : e.author = a),
     commits_in_last_year |->
         CountOf(CommitsOfRepository,
                 LAMBDA e : e.author = a /\ e.authoredDate >= one_year_ago_timestamp),
     total_reviews |-> CountOf(reviewers, LAMBDA e : e.author = a),
     reviews_in_last_year |->
         CountOf(reviewers,
                 LAMBDA e : e.author = a /\ e.reviewDate >= one_year_ago_timestamp)]

\* C19: the table of a repository is empty when its walkers start and, when
\* complete, holds for each author the counts of this repository's events
\* alone, whatever was processed before; get_commits is called only after
\* get_reviews has returned and its events were counted, and the reports of
\* the repositories before the current one are printed before its first
\* request.
C19_TablePerRepository ==
    /\ pc \in {"get_reviews", "get_reviews_returned"} => authors = <<>>
    /\ InRepository => Cardinality(Reports) = repo_i - 1
    /\ pc \in {"get_commits", "get_commits_returned", "for_commits"} =>
          /\ reviews = reviewers
          /\ \A i \in 1..Len(authors) :
                authors[i].total_reviews =
                    CountOf(reviewers, LAMBDA e : e.author = authors[i].author)
    /\ Aggregated =>
          /\ \A i \in 1..Len(authors) : authors[i] = CountsOfRepository(authors[i].author)
          /\ {authors[i].author : i \in 1..Len(authors)} =
                {CommitsOfRepository[i].author : i \in 1..Len(CommitsOfRepository)}
                \cup {reviewers[i].author : i \in 1..Len(reviewers)}

\* The table of the second repository of a run is complete: alice has one
\* commit in it and no review, after a first repository, reported already,
\* in which she had a commit and a review.
C19_Witness ==
    /\ Aggregated
    /\ repo_i = 2
    /\ Cardinality(Reports) = 1
    /\ server.prs[org_repos[1][1]] # <<>>
    /\ server.prs[RepoName] = <<>>
    /\ \E i \in 1..Len(authors) :
          /\ authors[i].author = "alice"
          /\ authors[i].total_commits = 1
          /\ authors[i].total_reviews = 0

----------------------------------------------------------------------------
(* Claims about get_commits                                                 *)

History == server.history[RepoName]

CommitsReturned == pc = "get_commits_returned"

\* get_commits has returned one event per commit of the history, in the
\* order of the history, the author being the login of the linked account
\* when there is one and the name on the commit otherwise.
OneEventPerCommit ==
    /\ Len(commit_list) = Len(History)
    /\ \A i \in 1..Len(History) :
          /\ commit_list[i].authoredDate = History[i].authoredDate[1] - utcoffset
          /\ commit_list[i].author =
                IF History[i].author.user = None THEN History[i].author.name
                ELSE History[i].author.user[1]

\* The first request carries no cursor, each later one the end cursor of the
\* page before it.
HistoryCursorChained ==
    /\ requests[1] = <<EmptyArgs>>
    /\ \A k \in 1..(Len(requests) - 1) :
          LET page == HistoryPage(History, requests[k][1]).pageInfo
          IN page.hasNextPage /\ requests[k + 1] = <<page.endCursor>>

\* Pairs of a commit with a linked account and a commit without one.
LinkedAndUnlinked ==
    {p \in (1..Len(History)) \X (1..Len(History)) :
        History[p[1]].author.user # None /\ History[p[2]].author.user = None}

====
